---- MODULE Spec2Model ----
(***************************************************************************)
(* swipe-events.js: the touch-gesture session tracker and the telemetry    *)
(* record it publishes on the "swipe" channel for every touch transition.  *)
(* Modelled from src/docs/swipe-events.js (the current library).           *)
(*                                                                         *)
(* JavaScript numbers are modelled exactly over integer pixel coordinates  *)
(* and integer millisecond timestamps:                                     *)
(*   [k |-> "rat",  n, d]   the rational n/d (d > 0, lowest terms)         *)
(*   [k |-> "sqrt", n, d]   the irrational sqrt(n)/d (n not a square)      *)
(*   [k |-> "Infinity"..]   +Infinity                                      *)
(*   [k |-> "NaN"..]        NaN                                            *)
(*   [k |-> "undefined"..]  the value of a variable never assigned         *)
(*   [k |-> "deg", n, d, w] the angle (atan2(n, d) + w*2*PI) * (180/PI)    *)
(***************************************************************************)
EXTENDS Integers, Sequences, FiniteSets, TLC

\* ---- bounds of the model --------------------------------------------------
MaxX == 3
MaxY == 1
MaxTime == 2
MaxToggles == 2
MaxLogX == 1
MaxLogY == 0
MaxLogTime == 1
\* the most touchmove handlers that are inside their dispatch at one time
MaxDepth == 1

\* touch coordinates: a sparse grid whose horizontal displacements are
\* 0, 1, MaxX - 1 and MaxX
Xs == {0, 1, MaxX}
Ys == 0..MaxY

\* the coarser touch grid on which the control surface is explored
LogXs == {0, MaxLogX}
LogYs == 0..MaxLogY
LogTimes == 0..MaxLogTime

VARIABLES originX, originY, lastX, lastY, firstEvent, lastEvent, logEvents,
          now, op, published, lastStart, ret, toggles, quiet, delivered, echo,
          dispatching, registered

session == <<originX, originY, lastX, lastY, firstEvent, lastEvent>>
\* the control surface: the flag, the value returned by the last call of
\* telemetryLoggingEnabled or toggleTelemetryLogging, and the number of
\* toggleTelemetryLogging calls made so far; with it, the number of times the
\* body of the script has run and registered its listeners
control == <<logEvents, ret, toggles, registered>>
vars == <<originX, originY, lastX, lastY, firstEvent, lastEvent, logEvents,
          now, op, published, lastStart, ret, toggles, quiet, delivered, echo,
          dispatching, registered>>

\* ---- JavaScript values ----------------------------------------------------
Num(i) == [k |-> "rat", n |-> i, d |-> 1, w |-> 0]
undefined == [k |-> "undefined", n |-> 0, d |-> 1, w |-> 0]
NaN == [k |-> "NaN", n |-> 0, d |-> 1, w |-> 0]
Infinity == [k |-> "Infinity", n |-> 1, d |-> 1, w |-> 0]
Zero == Num(0)

IsInt(v) == v.k = "rat" /\ v.d = 1
IsFinite(v) == v.k \in {"rat", "sqrt"}
IsZero(v) == v.k = "rat" /\ v.n = 0

RECURSIVE Gcd(_, _)
Gcd(a, b) == IF b = 0 THEN a ELSE Gcd(b, a % b)

\* floor of the square root of a natural number
RECURSIVE ISqrtFrom(_, _)
ISqrtFrom(s, r) == IF (r + 1) * (r + 1) > s THEN r ELSE ISqrtFrom(s, r + 1)
ISqrt(s) == ISqrtFrom(s, 0)

\* a - b on the values the program subtracts (coordinates and timestamps);
\* undefined converts to NaN, and NaN propagates
Sub(a, b) == IF IsInt(a) /\ IsInt(b) THEN Num(a.n - b.n) ELSE NaN

\* Math.abs
MathAbsUndefinedAsZero(a) == IF IsInt(a) THEN Num(IF a.n < 0 THEN -a.n ELSE a.n) ELSE Zero
MathAbs(a) == IF IsInt(a) THEN Num(IF a.n < 0 THEN -a.n ELSE a.n) ELSE NaN

\* Math.hypot of two values
MathHypot(a, b) ==
    IF IsInt(a) /\ IsInt(b)
    THEN LET s == a.n * a.n + b.n * b.n
             r == ISqrt(s)
         IN IF r * r = s THEN Num(r)
            ELSE [k |-> "sqrt", n |-> s, d |-> 1, w |-> 0]
    ELSE NaN

\* a / b for a non-negative distance a and an integer or NaN b
Div(a, b) ==
    IF ~IsFinite(a) \/ ~IsInt(b) THEN NaN
    ELSE IF b.n = 0 THEN (IF IsZero(a) THEN NaN ELSE Infinity)
    ELSE IF a.k = "sqrt"
         THEN [k |-> "sqrt", n |-> a.n, d |-> a.d * b.n, w |-> 0]
    ELSE LET g == Gcd(a.n, b.n)
         IN [k |-> "rat", n |-> a.n \div g, d |-> b.n \div g, w |-> 0]

\* (v) || 0 : NaN and 0 are falsy, every other number is truthy
OrZeroNoGuard(v) == v
OrZero(v) == IF v.k = "NaN" \/ IsZero(v) THEN Zero ELSE v

\* a > b on coordinates and distances; false when either side is NaN/undefined
Gt(a, b) == IsInt(a) /\ IsInt(b) /\ a.n > b.n

\* ---- angles ---------------------------------------------------------------
\* Position of the angle atan(b/a), a >= 0, b >= 0, on the quarter circle cut
\* by the rays at 0, 22.5, 45, 67.5 and 90 degrees: 2*i on the i-th ray,
\* 2*i+1 strictly between the i-th and the next.  tan(22.5 deg) = sqrt(2)-1,
\* so atan(b/a) > 22.5 deg iff (a+b)^2 > 2*a^2, and atan(b/a) < 67.5 deg iff
\* (a+b)^2 > 2*b^2.  atan2(0, 0) is 0.
QuadPos(a, b) ==
    IF b = 0 THEN 0
    ELSE IF a = 0 THEN 8
    ELSE IF (a + b) * (a + b) < 2 * a * a THEN 1
    ELSE IF (a + b) * (a + b) = 2 * a * a THEN 2
    ELSE IF b < a THEN 3
    ELSE IF b = a THEN 4
    ELSE IF (a + b) * (a + b) > 2 * b * b THEN 5
    ELSE IF (a + b) * (a + b) = 2 * b * b THEN 6
    ELSE 7

\* Position of Math.atan2(y, x), in (-180, 180] degrees, in the same units
\* (one unit = 11.25 degrees, 16 = 180 degrees)
Atan2Pos(y, x) ==
    IF y >= 0
    THEN (IF x >= 0 THEN QuadPos(x, y) ELSE 16 - QuadPos(-x, y))
    ELSE (IF x >= 0 THEN -QuadPos(x, -y) ELSE -(16 - QuadPos(-x, -y)))

\* Math.atan2(y, x), in radians
MathAtan2(y, x) ==
    IF IsInt(y) /\ IsInt(x) THEN [k |-> "rad", n |-> y.n, d |-> x.n, w |-> 0]
    ELSE NaN

\* radians < 0 : atan2(y, x) is negative exactly when y is negative
RadNegative(r) == r.k = "rad" /\ r.n < 0

\* radians + 2 * Math.PI
AddTwoPi(r) == IF r.k = "rad" THEN [r EXCEPT !.w = r.w + 1] ELSE NaN

\* radians * (180 / Math.PI)
ToDegrees(r) == IF r.k = "rad" THEN [r EXCEPT !.k = "deg"] ELSE NaN

\* position of an angle in degrees, in units of 11.25 degrees (32 = 360)
DegPos(t) == Atan2Pos(t.n, t.d) + 32 * t.w

\* t > 22.5 and t < 67.5 for an angle t in degrees; false for NaN
GtDeg225(t) == t.k = "deg" /\ DegPos(t) > 2
LtDeg675(t) == t.k = "deg" /\ DegPos(t) < 6

\* ---- the telemetry computation --------------------------------------------
TouchTypes == {"touchstart", "touchmove", "touchend", "touchcancel"}

\* const initial = e.type === "touchstart"
initialUnlessMove(e) == e.type # "touchmove"
initial(e) == e.type = "touchstart"

\* const ongoing = initial || e.type === "touchmove"
ongoingMoveOnly(e) == e.type = "touchmove"
ongoing(e) == initial(e) \/ e.type = "touchmove"

\* const totalDistanceX = Math.abs(totalChangeInX), and likewise for Y
totalDistanceNoAbs(change) == change
totalDistanceAxis(change) == MathAbs(change)

\* const horizontalDir = originX > currentX ? "W" : "E"
horizontalDirMirrored(oX, currentX) == IF Gt(currentX, oX) THEN "W" ELSE "E"
horizontalDir(oX, currentX) == IF Gt(oX, currentX) THEN "W" ELSE "E"

\* const verticalDir = originY > currentY ? "N" : "S"
verticalDirNorthUnlessBelow(oY, currentY) == IF Gt(currentY, oY) THEN "S" ELSE "N"
verticalDir(oY, currentY) == IF Gt(oY, currentY) THEN "N" ELSE "S"

\* const cardinal4 = (totalDistanceX > totalDistanceY) ? horizontalDir : verticalDir
cardinal4TieHorizontal(tdX, tdY, hDir, vDir) == IF Gt(tdY, tdX) THEN vDir ELSE hDir
cardinal4(tdX, tdY, hDir, vDir) == IF Gt(tdX, tdY) THEN hDir ELSE vDir

\* const cardinal8 = (tangent > 22.5 && tangent < 67.5)
\*                       ? verticalDir + horizontalDir : cardinal4
cardinal8HorizontalFirst(tangent, hDir, vDir, c4) ==
    IF GtDeg225(tangent) /\ LtDeg675(tangent) THEN hDir \o vDir ELSE c4
cardinal8AboveZero(tangent, hDir, vDir, c4) ==
    IF tangent.k = "deg" /\ DegPos(tangent) > 0 /\ LtDeg675(tangent)
    THEN vDir \o hDir ELSE c4
cardinal8(tangent, hDir, vDir, c4) ==
    IF GtDeg225(tangent) /\ LtDeg675(tangent) THEN vDir \o hDir ELSE c4

\* const theta = (radians < 0 ? (radians + 2 * Math.PI) : radians) * (180 / Math.PI)
thetaNoWrap(radians) == ToDegrees(radians)
thetaWrapsPositive(radians) ==
    ToDegrees(IF RadNegative(radians) THEN radians ELSE AddTwoPi(radians))
theta(radians) ==
    ToDegrees(IF RadNegative(radians) THEN AddTwoPi(radians) ELSE radians)

\* the detail of the swipe event fireSwipeEvent dispatches, computed against
\* the session S in force when it is called
fireSwipeEvent(S, currentX, currentY, eventTime, e) ==
    LET totalChangeInX == Sub(currentX, S.originX)
        totalChangeInY == Sub(currentY, S.originY)
        totalDistanceX == totalDistanceAxis(totalChangeInX)
        totalDistanceY == totalDistanceAxis(totalChangeInY)
        totalDistance == MathHypot(totalDistanceX, totalDistanceY)
        latestDistanceX == MathAbs(Sub(currentX, S.lastX))
        latestDistanceY == MathAbs(Sub(currentY, S.lastY))
        latestDistance == MathHypot(latestDistanceX, latestDistanceY)
        duration == Sub(eventTime, S.firstEvent)
        overallSpeedX == OrZero(Div(totalDistanceX, duration))
        overallSpeedY == OrZero(Div(totalDistanceY, duration))
        overallSpeed == OrZero(Div(totalDistance, duration))
        millisSinceLastEvent == Sub(eventTime, S.lastEvent)
        latestSpeedX == OrZero(Div(latestDistanceX, millisSinceLastEvent))
        latestSpeedY == OrZero(Div(latestDistanceY, millisSinceLastEvent))
        latestSpeed == OrZero(Div(latestDistance, millisSinceLastEvent))
        hDir == horizontalDir(S.originX, currentX)
        vDir == verticalDir(S.originY, currentY)
        tangent == ToDegrees(MathAtan2(totalDistanceY, totalDistanceX))
        c4 == cardinal4(totalDistanceX, totalDistanceY, hDir, vDir)
        c8 == cardinal8(tangent, hDir, vDir, c4)
        radians == MathAtan2(totalChangeInY, totalChangeInX)
    IN [event |-> e,
        eventTime |-> eventTime,
        duration |-> duration,
        initial |-> initial(e),
        ongoing |-> ongoing(e),
        cardinal4 |-> c4,
        cardinal8 |-> c8,
        theta |-> theta(radians),
        originX |-> S.originX,
        originY |-> S.originY,
        currentX |-> currentX,
        currentY |-> currentY,
        totalDistanceX |-> totalDistanceX,
        totalDistanceY |-> totalDistanceY,
        totalDistance |-> totalDistance,
        latestDistanceX |-> latestDistanceX,
        latestDistanceY |-> latestDistanceY,
        latestDistance |-> latestDistance,
        overallSpeedX |-> overallSpeedX,
        overallSpeedY |-> overallSpeedY,
        overallSpeed |-> overallSpeed,
        latestSpeedX |-> latestSpeedX,
        latestSpeedY |-> latestSpeedY,
        latestSpeed |-> latestSpeed]

\* ---- the subscribers of the "swipe" channel ---------------------------------
\* The listeners of "swipe" in the order of their registration: the library's
\* own console logger, the demo page's listener, and a listener the page
\* adds after them.
swipeListeners == <<"logger", "demo", "page">>

\* console.debug(...) of the library's logger: one entry with the triggering
\* event's type and the other fields of the detail
consoleDebug(detail) == [detail EXCEPT !.event = detail.event.type]

\* the library's listener prints only while logEvents is set
swipeLoggerAlways(detail, enabled) == <<consoleDebug(detail)>>
swipeLogger(detail, enabled) ==
    IF enabled THEN <<consoleDebug(detail)>> ELSE <<>>

\* a string where an object is expected: a value of another shape
String(str) == [string |-> str]

\* the demo page's listener: eForLogging.detail.event = e.detail.event.type
\* assigns to the detail object it was handed
demoListener(detail) == [detail EXCEPT !.event = String(detail.event.type)]

\* the detail object after the listener named by to has run on it
afterListener(to, detail) ==
    IF to = "demo" THEN demoListener(detail) ELSE detail

\* The listeners are called one after another on the one detail object:
\* each is handed the object as the listeners before it left it.
RECURSIVE deliver(_, _)
deliver(listeners, detail) ==
    IF listeners = <<>> THEN <<>>
    ELSE <<[to |-> Head(listeners), detail |-> detail]>>
         \o deliver(Tail(listeners), afterListener(Head(listeners), detail))

\* document.dispatchEvent(new CustomEvent("swipe", {detail: ...})): called
\* once by fireSwipeEvent, it runs every listener before it returns
dispatchEventFirstOnly(detail) ==
    /\ published' = <<detail>>
    /\ delivered' = <<[to |-> Head(swipeListeners), detail |-> detail]>>
    /\ echo' = swipeLogger(detail, logEvents)
dispatchEvent(detail) ==
    /\ published' = <<detail>>
    /\ delivered' = deliver(swipeListeners, detail)
    /\ echo' = swipeLogger(detail, logEvents)

\* ---- state ----------------------------------------------------------------
\* the touch event the platform delivers: its type and changedTouches[0]
TouchEvent(type, x, y) == [type |-> type, clientX |-> Num(x), clientY |-> Num(y)]


\* a touchend or touchcancel event: its handler reads only the type
EndEvent(type) == [type |-> type, clientX |-> undefined, clientY |-> undefined]
NoSession == [originX |-> undefined, originY |-> undefined,
              lastX |-> undefined, lastY |-> undefined,
              firstEvent |-> undefined, lastEvent |-> undefined]
\* the latest touchstart: its point and time, and whether a touchend or
\* touchcancel has been processed since
NoStart == [seen |-> FALSE, x |-> undefined, y |-> undefined, t |-> undefined,
            ended |-> FALSE]

Init ==
    /\ originX = undefined
    /\ originY = undefined
    /\ lastX = undefined
    /\ lastY = undefined
    /\ firstEvent = undefined
    /\ lastEvent = undefined
    /\ logEvents = FALSE
    /\ now = 0
    /\ op = "load"
    /\ published = <<>>
    /\ lastStart = NoStart
    /\ ret = <<>>
    /\ toggles = 0
    /\ quiet = [session |-> NoSession, published |-> <<>>]
    /\ delivered = <<>>
    /\ echo = <<>>
    /\ dispatching = <<>>
    /\ registered = 1

\* Date.now(): the wall clock read by a handler, non-decreasing
DateNow(t) == t >= now /\ t <= MaxTime

\* a touchstart that only initialises the session and publishes nothing
touchstartNoFire ==
    \E x \in Xs, y \in Ys, t \in 0..MaxTime :
        /\ DateNow(t)
        /\ now' = t
        /\ op' = "touchstart"
        /\ originX' = Num(x)
        /\ originY' = Num(y)
        /\ firstEvent' = Num(t)
        /\ lastX' = Num(x)
        /\ lastY' = Num(y)
        /\ lastEvent' = Num(t)
        /\ published' = <<>>
        /\ delivered' = <<>>
        /\ echo' = <<>>
        /\ lastStart' = [seen |-> TRUE, x |-> Num(x), y |-> Num(y), t |-> Num(t),
                       ended |-> FALSE]
        /\ UNCHANGED control
        /\ UNCHANGED <<quiet, dispatching>>

\* a touchstart that sets the origin but keeps lastX, lastY and lastEvent
touchstartKeepsLast ==
    \E x \in Xs, y \in Ys, t \in 0..MaxTime :
        LET e == TouchEvent("touchstart", x, y)
            S == [originX |-> e.clientX, originY |-> e.clientY,
                  lastX |-> lastX, lastY |-> lastY,
                  firstEvent |-> Num(t), lastEvent |-> lastEvent]
        IN /\ DateNow(t)
           /\ now' = t
           /\ op' = "touchstart"
           /\ originX' = S.originX
           /\ originY' = S.originY
           /\ firstEvent' = S.firstEvent
           /\ dispatchEvent(fireSwipeEvent(S, S.originX, S.originY, S.firstEvent, e))
           /\ lastStart' = [seen |-> TRUE, x |-> e.clientX, y |-> e.clientY, t |-> Num(t),
                       ended |-> FALSE]
           /\ UNCHANGED <<lastX, lastY, lastEvent, control>>
           /\ UNCHANGED <<quiet, dispatching>>

\* a touchstart that keeps the firstEvent of a gesture already under way
touchstartAtKeepsFirstEvent(x, y, t) ==
    LET e == TouchEvent("touchstart", x, y)
        S == [originX |-> e.clientX, originY |-> e.clientY,
              lastX |-> e.clientX, lastY |-> e.clientY,
              firstEvent |-> IF IsInt(firstEvent) THEN firstEvent ELSE Num(t),
              lastEvent |-> Num(t)]
    IN /\ DateNow(t)
       /\ now' = t
       /\ op' = "touchstart"
       /\ originX' = S.originX
       /\ originY' = S.originY
       /\ firstEvent' = S.firstEvent
       /\ lastX' = S.lastX
       /\ lastY' = S.lastY
       /\ lastEvent' = S.lastEvent
       /\ dispatchEvent(fireSwipeEvent(S, S.originX, S.originY, Num(t), e))
       /\ lastStart' = [seen |-> TRUE, x |-> e.clientX, y |-> e.clientY, t |-> Num(t),
                       ended |-> FALSE]
       /\ UNCHANGED control

\* document.addEventListener("touchstart", ...)
touchstartAt(x, y, t) ==
    LET e == TouchEvent("touchstart", x, y)
        S == [originX |-> e.clientX, originY |-> e.clientY,
              lastX |-> e.clientX, lastY |-> e.clientY,
              firstEvent |-> Num(t), lastEvent |-> Num(t)]
    IN /\ DateNow(t)
       /\ now' = t
       /\ op' = "touchstart"
       /\ originX' = S.originX
       /\ originY' = S.originY
       /\ firstEvent' = S.firstEvent
       /\ lastX' = S.lastX
       /\ lastY' = S.lastY
       /\ lastEvent' = S.lastEvent
       /\ dispatchEvent(fireSwipeEvent(S, S.originX, S.originY, S.firstEvent, e))
       /\ lastStart' = [seen |-> TRUE, x |-> e.clientX, y |-> e.clientY, t |-> Num(t),
                       ended |-> FALSE]
       /\ UNCHANGED control

touchstart ==
    \E x \in Xs, y \in Ys, t \in 0..MaxTime :
        touchstartAt(x, y, t) /\ UNCHANGED <<quiet, dispatching>>

Session == [originX |-> originX, originY |-> originY,
            lastX |-> lastX, lastY |-> lastY,
            firstEvent |-> firstEvent, lastEvent |-> lastEvent]

\* a touchmove that also moves the origin to the current point
touchmoveMovesOrigin ==
    \E x \in Xs, y \in Ys, t \in 0..MaxTime :
        LET e == TouchEvent("touchmove", x, y)
        IN /\ DateNow(t)
           /\ now' = t
           /\ op' = "touchmove"
           /\ dispatchEvent(fireSwipeEvent(Session, e.clientX, e.clientY, Num(t), e))
           /\ originX' = e.clientX
           /\ originY' = e.clientY
           /\ lastX' = e.clientX
           /\ lastY' = e.clientY
           /\ lastEvent' = Num(t)
           /\ UNCHANGED <<firstEvent, control, lastStart>>
           /\ UNCHANGED <<quiet, dispatching>>

\* a touchmove that advances the session before it publishes
touchmoveAtAdvancesFirst(x, y, t) ==
    LET e == TouchEvent("touchmove", x, y)
        touchX == e.clientX
        touchY == e.clientY
        eventTime == Num(t)
        advanced == [Session EXCEPT !.lastX = touchX, !.lastY = touchY,
                                    !.lastEvent = eventTime]
    IN /\ DateNow(t)
       /\ now' = t
       /\ op' = "touchmove"
       /\ dispatchEvent(fireSwipeEvent(advanced, touchX, touchY, eventTime, e))
       /\ lastX' = touchX
       /\ lastY' = touchY
       /\ lastEvent' = eventTime
       /\ UNCHANGED <<originX, originY, firstEvent, control, lastStart>>

\* a touchmove that keeps lastEvent while logging is switched on
touchmoveAtLoggingKeepsLastEvent(x, y, t) ==
    LET e == TouchEvent("touchmove", x, y)
        touchX == e.clientX
        touchY == e.clientY
        eventTime == Num(t)
    IN /\ DateNow(t)
       /\ now' = t
       /\ op' = "touchmove"
       /\ dispatchEvent(fireSwipeEvent(Session, touchX, touchY, eventTime, e))
       /\ lastX' = touchX
       /\ lastY' = touchY
       /\ lastEvent' = IF logEvents THEN lastEvent ELSE eventTime
       /\ UNCHANGED <<originX, originY, firstEvent, control, lastStart>>

\* document.addEventListener("touchmove", ...)
touchmoveAt(x, y, t) ==
    LET e == TouchEvent("touchmove", x, y)
        touchX == e.clientX
        touchY == e.clientY
        eventTime == Num(t)
    IN /\ DateNow(t)
       /\ now' = t
       /\ op' = "touchmove"
       /\ dispatchEvent(fireSwipeEvent(Session, touchX, touchY, eventTime, e))
       /\ lastX' = touchX
       /\ lastY' = touchY
       /\ lastEvent' = eventTime
       /\ UNCHANGED <<originX, originY, firstEvent, control, lastStart>>

touchmove ==
    \E x \in Xs, y \in Ys, t \in 0..MaxTime :
        touchmoveAt(x, y, t) /\ UNCHANGED <<quiet, dispatching>>

\* a touchend that takes its point from the event's changedTouches
touchendFromEvent ==
    \E x \in Xs, y \in Ys, t \in 0..MaxTime :
        LET e == TouchEvent("touchend", x, y)
        IN /\ DateNow(t)
           /\ now' = t
           /\ op' = "touchend"
           /\ dispatchEvent(fireSwipeEvent(Session, e.clientX, e.clientY, Num(t), e))
           /\ lastStart' = [lastStart EXCEPT !.ended = lastStart.seen]
           /\ UNCHANGED <<originX, originY, lastX, lastY, firstEvent, lastEvent,
                          control>>
           /\ UNCHANGED <<quiet, dispatching>>

\* a touchend that advances lastEvent to its own timestamp
touchendAtAdvancesLastEvent(t) ==
    LET e == EndEvent("touchend")
    IN /\ DateNow(t)
       /\ now' = t
       /\ op' = "touchend"
       /\ dispatchEvent(fireSwipeEvent(Session, lastX, lastY, Num(t), e))
       /\ lastStart' = [lastStart EXCEPT !.ended = lastStart.seen]
       /\ lastEvent' = Num(t)
       /\ UNCHANGED <<originX, originY, lastX, lastY, firstEvent, control>>

\* a touchend that forgets where the gesture started
touchendAtForgetsOrigin(t) ==
    LET e == EndEvent("touchend")
    IN /\ DateNow(t)
       /\ now' = t
       /\ op' = "touchend"
       /\ dispatchEvent(fireSwipeEvent(Session, lastX, lastY, Num(t), e))
       /\ lastStart' = [lastStart EXCEPT !.ended = lastStart.seen]
       /\ originX' = undefined
       /\ originY' = undefined
       /\ firstEvent' = undefined
       /\ UNCHANGED <<lastX, lastY, lastEvent, control>>

\* document.addEventListener("touchend", ...)
touchendAt(t) ==
    LET e == EndEvent("touchend")
    IN /\ DateNow(t)
       /\ now' = t
       /\ op' = "touchend"
       /\ dispatchEvent(fireSwipeEvent(Session, lastX, lastY, Num(t), e))
       /\ lastStart' = [lastStart EXCEPT !.ended = lastStart.seen]
       /\ UNCHANGED <<originX, originY, lastX, lastY, firstEvent, lastEvent,
                      control>>

touchend ==
    \E t \in 0..MaxTime :
        touchendAt(t) /\ UNCHANGED <<quiet, dispatching>>

\* a touchcancel that reports the gesture back at its origin
touchcancelAtFromOrigin(t) ==
    LET e == EndEvent("touchcancel")
    IN /\ DateNow(t)
       /\ now' = t
       /\ op' = "touchcancel"
       /\ dispatchEvent(fireSwipeEvent(Session, originX, originY, Num(t), e))
       /\ lastStart' = [lastStart EXCEPT !.ended = lastStart.seen]
       /\ UNCHANGED <<originX, originY, lastX, lastY, firstEvent, lastEvent,
                      control>>

\* document.addEventListener("touchcancel", ...)
touchcancelAt(t) ==
    LET e == EndEvent("touchcancel")
    IN /\ DateNow(t)
       /\ now' = t
       /\ op' = "touchcancel"
       /\ dispatchEvent(fireSwipeEvent(Session, lastX, lastY, Num(t), e))
       /\ lastStart' = [lastStart EXCEPT !.ended = lastStart.seen]
       /\ UNCHANGED <<originX, originY, lastX, lastY, firstEvent, lastEvent,
                      control>>

touchcancel ==
    \E t \in 0..MaxTime :
        touchcancelAt(t) /\ UNCHANGED <<quiet, dispatching>>

\* a query that switches the echo off as it answers
telemetryLoggingEnabledSwitchesOff ==
    /\ ret' = <<logEvents>>
    /\ logEvents' = FALSE
    /\ op' = "telemetryLoggingEnabled"
    /\ published' = <<>>
    /\ delivered' = <<>>
    /\ echo' = <<>>
    /\ UNCHANGED <<originX, originY, lastX, lastY, firstEvent, lastEvent,
                   now, lastStart, toggles, quiet, dispatching, registered>>

\* SwipeEvents.telemetryLoggingEnabled(): return logEvents
telemetryLoggingEnabled ==
    /\ ret' = <<logEvents>>
    /\ op' = "telemetryLoggingEnabled"
    /\ published' = <<>>
    /\ delivered' = <<>>
    /\ echo' = <<>>
    /\ UNCHANGED <<originX, originY, lastX, lastY, firstEvent, lastEvent,
                   now, lastStart, logEvents, toggles, quiet, dispatching,
                   registered>>

\* a toggle that only ever switches logging on
toggleTelemetryLoggingSetsOn ==
    /\ toggles < MaxToggles
    /\ logEvents' = TRUE
    /\ ret' = <<logEvents'>>
    /\ toggles' = toggles + 1
    /\ op' = "toggleTelemetryLogging"
    /\ published' = <<>>
    /\ delivered' = <<>>
    /\ echo' = <<>>
    /\ UNCHANGED <<originX, originY, lastX, lastY, firstEvent, lastEvent,
                   now, lastStart, quiet, dispatching, registered>>

\* SwipeEvents.toggleTelemetryLogging(): logEvents = !logEvents; return logEvents
toggleTelemetryLogging ==
    /\ toggles < MaxToggles
    /\ logEvents' = ~logEvents
    /\ ret' = <<logEvents'>>
    /\ toggles' = toggles + 1
    /\ op' = "toggleTelemetryLogging"
    /\ published' = <<>>
    /\ delivered' = <<>>
    /\ echo' = <<>>
    /\ UNCHANGED <<originX, originY, lastX, lastY, firstEvent, lastEvent,
                   now, lastStart, quiet, dispatching, registered>>

\* the gesture tracker: the four touch listeners
Next ==
    \/ touchstart
    \/ touchmove
    \/ touchend
    \/ touchcancel

Spec == Init /\ [][Next]_vars

\* ---- the control surface next to the tracker ------------------------------
\* A second instance of the library that is delivered the same touch events at
\* the same Date.now() values but on which telemetryLoggingEnabled and
\* toggleTelemetryLogging are never called: its session and the record its
\* handler publishes for the touch event e at time t.
quietAfter(q, e, t) ==
    IF e.type = "touchstart"
    THEN LET S == [originX |-> e.clientX, originY |-> e.clientY,
                   lastX |-> e.clientX, lastY |-> e.clientY,
                   firstEvent |-> Num(t), lastEvent |-> Num(t)]
         IN [session |-> S,
             published |-> <<fireSwipeEvent(S, S.originX, S.originY, S.firstEvent, e)>>]
    ELSE IF e.type = "touchmove"
    THEN [session |-> [q.session EXCEPT !.lastX = e.clientX, !.lastY = e.clientY,
                                        !.lastEvent = Num(t)],
          published |-> <<fireSwipeEvent(q.session, e.clientX, e.clientY, Num(t), e)>>]
    ELSE [session |-> q.session,
          published |-> <<fireSwipeEvent(q.session, q.session.lastX,
                                         q.session.lastY, Num(t), e)>>]

touchstartLogging ==
    \E x \in LogXs, y \in LogYs, t \in LogTimes :
        /\ touchstartAt(x, y, t)
        /\ quiet' = quietAfter(quiet, TouchEvent("touchstart", x, y), t)
        /\ UNCHANGED dispatching

touchmoveLogging ==
    \E x \in LogXs, y \in LogYs, t \in LogTimes :
        /\ touchmoveAt(x, y, t)
        /\ quiet' = quietAfter(quiet, TouchEvent("touchmove", x, y), t)
        /\ UNCHANGED dispatching

touchendLogging ==
    \E t \in LogTimes :
        /\ touchendAt(t)
        /\ quiet' = quietAfter(quiet, EndEvent("touchend"), t)
        /\ UNCHANGED dispatching

touchcancelLogging ==
    \E t \in LogTimes :
        /\ touchcancelAt(t)
        /\ quiet' = quietAfter(quiet, EndEvent("touchcancel"), t)
        /\ UNCHANGED dispatching

\* the gesture tracker together with the public control surface
NextLogging ==
    \/ touchstartLogging
    \/ touchmoveLogging
    \/ touchendLogging
    \/ touchcancelLogging
    \/ telemetryLoggingEnabled
    \/ toggleTelemetryLogging

SpecLogging == Init /\ [][NextLogging]_vars

\* ---- the script loaded again ------------------------------------------------
\* a load that runs the body of the script whether or not SwipeEvents exists
loadScriptRunsAgain ==
    /\ op' = "load"
    /\ published' = <<>>
    /\ delivered' = <<>>
    /\ echo' = <<>>
    /\ registered' = registered + 1
    /\ logEvents' = FALSE
    /\ originX' = undefined
    /\ originY' = undefined
    /\ lastX' = undefined
    /\ lastY' = undefined
    /\ firstEvent' = undefined
    /\ lastEvent' = undefined
    /\ UNCHANGED <<now, lastStart, ret, toggles, quiet, dispatching>>

\* var SwipeEvents = SwipeEvents || (() => { ... })(): the body runs, with its
\* let declarations and its addEventListener calls, only when the global
\* SwipeEvents has no object yet
loadScript ==
    /\ op' = "load"
    /\ published' = <<>>
    /\ delivered' = <<>>
    /\ echo' = <<>>
    /\ IF registered >= 1
       THEN UNCHANGED <<registered, logEvents, originX, originY, lastX, lastY,
                        firstEvent, lastEvent>>
       ELSE /\ registered' = 1
            /\ logEvents' = FALSE
            /\ originX' = undefined
            /\ originY' = undefined
            /\ lastX' = undefined
            /\ lastY' = undefined
            /\ firstEvent' = undefined
            /\ lastEvent' = undefined
    /\ UNCHANGED <<now, lastStart, ret, toggles, quiet, dispatching>>

\* the number of swipe events one touch event makes: each run of the body
\* registered its own touch listeners, and each of them dispatches one
recordsPublished == registered * Len(published)

\* the page with its control surface, and the script tag met again
NextReload ==
    \/ touchstartLogging
    \/ touchmoveLogging
    \/ touchendLogging
    \/ touchcancelLogging
    \/ telemetryLoggingEnabled
    \/ toggleTelemetryLogging
    \/ loadScript

SpecReload == Init /\ [][NextReload]_vars

\* ---- listeners that deliver touch events -----------------------------------
\* document.dispatchEvent runs the listeners of "swipe" before it returns, and a
\* listener may itself dispatch a touch event on the document, whose handler
\* then runs inside the dispatch of the first. The touchmove handler is the
\* one handler with statements after its call of fireSwipeEvent, so it is
\* split at that call: dispatching holds, innermost last, the moves whose
\* handlers have published and have not yet assigned lastX, lastY, lastEvent.

\* the touchmove handler up to the return of fireSwipeEvent
touchmoveFire ==
    \E x \in LogXs, y \in LogYs, t \in LogTimes :
        LET e == TouchEvent("touchmove", x, y)
        IN /\ Len(dispatching) < MaxDepth
           /\ DateNow(t)
           /\ now' = t
           /\ op' = "touchmove"
           /\ dispatchEvent(fireSwipeEvent(Session, e.clientX, e.clientY, Num(t), e))
           /\ dispatching' = Append(dispatching,
                                    [touchX |-> e.clientX, touchY |-> e.clientY,
                                     eventTime |-> Num(t)])
           /\ UNCHANGED <<originX, originY, lastX, lastY, firstEvent, lastEvent,
                          control, lastStart, quiet>>

\* the rest of the innermost touchmove handler: lastX = touchX; lastY = touchY;
\* lastEvent = eventTime
touchmoveAdvance ==
    /\ dispatching # <<>>
    /\ LET frame == dispatching[Len(dispatching)]
       IN /\ lastX' = frame.touchX
          /\ lastY' = frame.touchY
          /\ lastEvent' = frame.eventTime
    /\ dispatching' = SubSeq(dispatching, 1, Len(dispatching) - 1)
    /\ op' = "advance"
    /\ UNCHANGED <<originX, originY, firstEvent, control, lastStart, quiet,
                   now, published, delivered, echo>>

\* touchstart, touchend and touchcancel have nothing after their call of
\* fireSwipeEvent: delivered from the browser or from a listener, they run
\* whole
touchstartDelivered ==
    \E x \in LogXs, y \in LogYs, t \in LogTimes :
        touchstartAt(x, y, t) /\ UNCHANGED <<quiet, dispatching>>

touchendDelivered ==
    \E t \in LogTimes : touchendAt(t) /\ UNCHANGED <<quiet, dispatching>>

touchcancelDelivered ==
    \E t \in LogTimes : touchcancelAt(t) /\ UNCHANGED <<quiet, dispatching>>

NextReentrant ==
    \/ touchstartDelivered
    \/ touchmoveFire
    \/ touchmoveAdvance
    \/ touchendDelivered
    \/ touchcancelDelivered

SpecReentrant == Init /\ [][NextReentrant]_vars


\* ---- version 1.0 of the library (src/swipe-events.js) ------------------------
\* Its session variables touchStartX, touchStartY, lastTouchX, lastTouchY,
\* firstEventTime, lastEventTime are held in originX, originY, lastX, lastY,
\* firstEvent, lastEvent.

\* fireSwipeEvent(startX, startY, endX, endY, eventTime, ongoing) of 1.0: no
\* guard on the speeds, theta is the angle of the two distances, and the
\* detail has no event, initial or theta field
fireSwipeEventV1(S, endX, endY, eventTime, ongoingFlag) ==
    LET totalDistanceX == MathAbs(Sub(endX, S.originX))
        totalDistanceY == MathAbs(Sub(endY, S.originY))
        totalDistance == MathHypot(totalDistanceX, totalDistanceY)
        latestDistanceX == MathAbs(Sub(endX, S.lastX))
        latestDistanceY == MathAbs(Sub(endY, S.lastY))
        latestDistance == MathHypot(latestDistanceX, latestDistanceY)
        duration == Sub(eventTime, S.firstEvent)
        millisSinceLastEvent == Sub(eventTime, S.lastEvent)
        hDir == horizontalDir(S.originX, endX)
        vDir == verticalDir(S.originY, endY)
        angle == ToDegrees(MathAtan2(totalDistanceY, totalDistanceX))
        cardinal4dir == cardinal4(totalDistanceX, totalDistanceY, hDir, vDir)
    IN [eventTime |-> eventTime,
        duration |-> duration,
        ongoing |-> ongoingFlag,
        cardinal4dir |-> cardinal4dir,
        cardinal8dir |-> cardinal8(angle, hDir, vDir, cardinal4dir),
        touchStartX |-> S.originX,
        touchStartY |-> S.originY,
        touchEndX |-> endX,
        touchEndY |-> endY,
        totalDistanceX |-> totalDistanceX,
        totalDistanceY |-> totalDistanceY,
        totalDistance |-> totalDistance,
        latestDistanceX |-> latestDistanceX,
        latestDistanceY |-> latestDistanceY,
        latestDistance |-> latestDistance,
        totalSpeedX |-> Div(totalDistanceX, duration),
        totalSpeedY |-> Div(totalDistanceY, duration),
        totalSpeed |-> Div(totalDistance, duration),
        latestSpeedX |-> Div(latestDistanceX, millisSinceLastEvent),
        latestSpeedY |-> Div(latestDistanceY, millisSinceLastEvent),
        latestSpeed |-> Div(latestDistance, millisSinceLastEvent)]

\* document.dispatchEvent of 1.0: the library's logger is the one listener,
\* and it prints the detail while logEvents is set
dispatchEventV1(detail) ==
    /\ published' = <<detail>>
    /\ delivered' = <<[to |-> "logger", detail |-> detail]>>
    /\ echo' = IF logEvents THEN <<detail>> ELSE <<>>

\* a touchstart that publishes, as the later version does
touchstartV1AtFires(x, y, t) ==
    LET e == TouchEvent("touchstart", x, y)
        S == [originX |-> e.clientX, originY |-> e.clientY,
              lastX |-> e.clientX, lastY |-> e.clientY,
              firstEvent |-> Num(t), lastEvent |-> Num(t)]
    IN /\ DateNow(t)
       /\ now' = t
       /\ op' = "touchstart"
       /\ originX' = S.originX
       /\ originY' = S.originY
       /\ lastX' = S.lastX
       /\ lastY' = S.lastY
       /\ firstEvent' = S.firstEvent
       /\ lastEvent' = S.lastEvent
       /\ dispatchEventV1(fireSwipeEventV1(S, S.originX, S.originY, Num(t), TRUE))
       /\ lastStart' = [seen |-> TRUE, x |-> e.clientX, y |-> e.clientY, t |-> Num(t),
                       ended |-> FALSE]
       /\ UNCHANGED control

\* document.addEventListener("touchstart", ...) of 1.0: the six assignments
\* and no call of fireSwipeEvent
touchstartV1At(x, y, t) ==
    LET e == TouchEvent("touchstart", x, y)
    IN /\ DateNow(t)
       /\ now' = t
       /\ op' = "touchstart"
       /\ originX' = e.clientX
       /\ originY' = e.clientY
       /\ lastX' = e.clientX
       /\ lastY' = e.clientY
       /\ firstEvent' = Num(t)
       /\ lastEvent' = Num(t)
       /\ published' = <<>>
       /\ delivered' = <<>>
       /\ echo' = <<>>
       /\ lastStart' = [seen |-> TRUE, x |-> e.clientX, y |-> e.clientY, t |-> Num(t),
                       ended |-> FALSE]
       /\ UNCHANGED control

\* document.addEventListener("touchmove", ...) of 1.0
touchmoveV1At(x, y, t) ==
    LET e == TouchEvent("touchmove", x, y)
        touchCurrentX == e.clientX
        touchCurrentY == e.clientY
        eventTime == Num(t)
    IN /\ DateNow(t)
       /\ now' = t
       /\ op' = "touchmove"
       /\ dispatchEventV1(fireSwipeEventV1(Session, touchCurrentX, touchCurrentY,
                                           eventTime, TRUE))
       /\ lastX' = touchCurrentX
       /\ lastY' = touchCurrentY
       /\ lastEvent' = eventTime
       /\ UNCHANGED <<originX, originY, firstEvent, control, lastStart>>

\* document.addEventListener("touchend", ...) and ("touchcancel", ...) of 1.0:
\* the record is computed from the event's own point
touchendV1At(type, x, y, t) ==
    LET e == TouchEvent(type, x, y)
        touchEndX == e.clientX
        touchEndY == e.clientY
    IN /\ DateNow(t)
       /\ now' = t
       /\ op' = type
       /\ dispatchEventV1(fireSwipeEventV1(Session, touchEndX, touchEndY,
                                           Num(t), FALSE))
       /\ lastStart' = [lastStart EXCEPT !.ended = lastStart.seen]
       /\ UNCHANGED <<originX, originY, lastX, lastY, firstEvent, lastEvent,
                      control>>

touchstartV1 ==
    \E x \in LogXs, y \in LogYs, t \in LogTimes :
        touchstartV1At(x, y, t) /\ UNCHANGED <<quiet, dispatching>>

touchmoveV1 ==
    \E x \in LogXs, y \in LogYs, t \in LogTimes :
        touchmoveV1At(x, y, t) /\ UNCHANGED <<quiet, dispatching>>

touchendV1 ==
    \E x \in LogXs, y \in LogYs, t \in LogTimes :
        touchendV1At("touchend", x, y, t) /\ UNCHANGED <<quiet, dispatching>>

touchcancelV1 ==
    \E x \in LogXs, y \in LogYs, t \in LogTimes :
        touchendV1At("touchcancel", x, y, t) /\ UNCHANGED <<quiet, dispatching>>

NextV1 ==
    \/ touchstartV1
    \/ touchmoveV1
    \/ touchendV1
    \/ touchcancelV1

SpecV1 == Init /\ [][NextV1]_vars


TypeOK ==
    /\ logEvents \in BOOLEAN
    /\ registered \in Nat
    /\ now \in 0..MaxTime
    /\ Len(published) <= 1
    /\ toggles \in 0..MaxToggles
    /\ Len(ret) <= 1

\* ---- properties -----------------------------------------------------------
\* the record published by the handler that ran last
Rec == published[1]
Transition == op \in TouchTypes
Published == Len(published) = 1
AfterStart == lastStart.seen /\ Published

SpeedFields(r) == {r.overallSpeedX, r.overallSpeedY, r.overallSpeed,
                   r.latestSpeedX, r.latestSpeedY, r.latestSpeed}
LatestSpeedFields(r) == {r.latestSpeedX, r.latestSpeedY, r.latestSpeed}
OverallSpeedFields(r) == {r.overallSpeedX, r.overallSpeedY, r.overallSpeed}
DistanceFields(r) == {r.totalDistanceX, r.totalDistanceY, r.totalDistance,
                      r.latestDistanceX, r.latestDistanceY, r.latestDistance}
LatestDistanceFields(r) == {r.latestDistanceX, r.latestDistanceY, r.latestDistance}

\* the square of a finite non-negative value
Square(v) == IF v.k = "sqrt" THEN v.n ELSE v.n * v.n
NonNegative(v) == IsFinite(v) /\ v.d = 1 /\ v.n >= 0

\* C1: every touchstart, touchmove, touchend and touchcancel, in any order
\* (also before any start), publishes exactly one swipe record, and that
\* record is the one of the transition just handled.
C1_OneRecordPerTransition ==
    Transition => Len(published) = 1 /\ Rec.event.type = op

C1_Witness ==
    /\ op = "touchcancel"
    /\ ~lastStart.seen
    /\ Len(published) = 1

\* C2: initial is true iff the transition is a start; ongoing is true iff the
\* transition is a start or a move.
C2_InitialOngoing ==
    Transition /\ Published =>
        /\ Rec.initial <=> (op = "touchstart")
        /\ Rec.ongoing <=> (op \in {"touchstart", "touchmove"})

C2_Witness ==
    /\ op = "touchend"
    /\ Published
    /\ ~Rec.initial
    /\ ~Rec.ongoing

\* C3: the record of a start has origin = current = the start point,
\* duration 0, all six distances 0 and all six speeds 0, whatever came before.
C3_StartRecordZero ==
    op = "touchstart" /\ Published =>
        /\ Rec.originX = Rec.event.clientX
        /\ Rec.originY = Rec.event.clientY
        /\ Rec.currentX = Rec.event.clientX
        /\ Rec.currentY = Rec.event.clientY
        /\ Rec.duration = Zero
        /\ \A v \in DistanceFields(Rec) : v = Zero
        /\ \A v \in SpeedFields(Rec) : v = Zero

C3_Witness ==
    /\ op = "touchstart"
    /\ Published
    /\ Rec.eventTime = Num(MaxTime)
    /\ Rec.currentX = Num(MaxX)
    /\ \A v \in SpeedFields(Rec) : v = Zero

\* C4: no speed field of any published record is ever NaN or Infinity, and the
\* overall speeds are 0 whenever duration is 0.  (With a zero time since the
\* previous transition a latest speed is NaN, Infinity or 0 before the guard,
\* so "the latest speeds are 0 then" is the finiteness of the latest speeds.)
C4_SpeedsGuarded ==
    Published =>
        /\ \A v \in SpeedFields(Rec) : IsFinite(v)
        /\ Rec.duration = Zero => \A v \in OverallSpeedFields(Rec) : v = Zero

\* C5: the record of an end or cancel that follows a start has all latest
\* distances and latest speeds 0, its point being the session's last point.
C5_EndLatestZero ==
    op \in {"touchend", "touchcancel"} /\ AfterStart =>
        /\ Rec.currentX = lastX
        /\ Rec.currentY = lastY
        /\ \A v \in LatestDistanceFields(Rec) : v = Zero
        /\ \A v \in LatestSpeedFields(Rec) : v = Zero

C5_Witness ==
    /\ op = "touchend"
    /\ AfterStart
    /\ Rec.totalDistance # Zero
    /\ Rec.latestDistance = Zero
    /\ Rec.latestSpeed = Zero

\* C6: cardinal4, cardinal8 and theta are null on the record of a touchstart.
\* (null is written "null" for the two strings.)
null == [k |-> "null", n |-> 0, d |-> 1, w |-> 0]

C6_NullOnStart ==
    op = "touchstart" /\ Published =>
        /\ Rec.cardinal4 = "null"
        /\ Rec.cardinal8 = "null"
        /\ Rec.theta = null

ThetaInRange(r) == r.theta.k = "deg" /\ DegPos(r.theta) >= 0 /\ DegPos(r.theta) < 32

DistancesConsistent(r) ==
    /\ r.totalDistanceX.n \in {r.currentX.n - r.originX.n, r.originX.n - r.currentX.n}
    /\ r.totalDistanceY.n \in {r.currentY.n - r.originY.n, r.originY.n - r.currentY.n}
    /\ Square(r.totalDistance) = Square(r.totalDistanceX) + Square(r.totalDistanceY)
    /\ Square(r.latestDistance) = Square(r.latestDistanceX) + Square(r.latestDistanceY)
    /\ \A v \in DistanceFields(r) : NonNegative(v)

C10_OriginFixed ==
    /\ [][op' # "touchstart" =>
            originX' = originX /\ originY' = originY /\ firstEvent' = firstEvent]_vars
    /\ [](AfterStart =>
            /\ Rec.originX = lastStart.x
            /\ Rec.originY = lastStart.y
            /\ originX = lastStart.x
            /\ originY = lastStart.y
            /\ firstEvent = lastStart.t
            /\ IsInt(Rec.duration)
            /\ Rec.duration.n = Rec.eventTime.n - lastStart.t.n)

C10_Witness ==
    /\ AfterStart
    /\ op = "touchcancel"
    /\ lastX # originX
    /\ Rec.duration = Num(MaxTime)

\* C11: after any start, whatever the session held before, originX/Y and
\* lastX/Y are the start point and firstEvent and lastEvent are the start's
\* timestamp.
C11_StartOverwritesSession ==
    op = "touchstart" /\ Published =>
        /\ originX = Rec.event.clientX
        /\ originY = Rec.event.clientY
        /\ lastX = Rec.event.clientX
        /\ lastY = Rec.event.clientY
        /\ firstEvent = Rec.eventTime
        /\ lastEvent = Rec.eventTime
        /\ Rec.eventTime = Num(now)

C11_Witness ==
    /\ op = "touchstart"
    /\ Published
    /\ now = MaxTime
    /\ originX = Num(MaxX)
    /\ lastX = originX
    /\ lastEvent = Num(MaxTime)

\* C12: after a move, end or cancel that follows a start, lastX/Y are that
\* transition's point and lastEvent is that transition's timestamp.
C12_LastAdvancedByEveryTransition ==
    op \in {"touchmove", "touchend", "touchcancel"} /\ AfterStart =>
        /\ lastX = Rec.currentX
        /\ lastY = Rec.currentY
        /\ lastEvent = Rec.eventTime

\* ---- the logging flag ------------------------------------------------------
API == {"telemetryLoggingEnabled", "toggleTelemetryLogging"}
Odd(n) == n % 2 = 1

\* C13: the flag is off before any toggle; after n calls of
\* toggleTelemetryLogging, interleaved with any queries and touch transitions,
\* the flag is on exactly when n is odd, and both telemetryLoggingEnabled and
\* toggleTelemetryLogging return the flag as it stands after the call.
C13_FlagIsToggleParity ==
    /\ logEvents <=> Odd(toggles)
    /\ op \in API => ret = <<Odd(toggles)>>
    /\ op = "load" => ~logEvents /\ toggles = 0

\* two toggles and touch transitions later, the query answers false again
C13_Witness ==
    /\ op = "telemetryLoggingEnabled"
    /\ toggles = 2
    /\ ret = <<FALSE>>
    /\ lastStart.seen

\* C14: the session state and the record published by every touch transition
\* are those of a tracker that received the same touch events and no
\* telemetryLoggingEnabled or toggleTelemetryLogging call at all.
C14_FlagDoesNotInfluenceTelemetry ==
    /\ Session = quiet.session
    /\ Transition => published = quiet.published

\* a touchmove processed while logging is on, after a start
C14_Witness ==
    /\ op = "touchmove"
    /\ logEvents
    /\ toggles > 0
    /\ AfterStart
    /\ Rec.latestDistanceX = Num(1)
    /\ published = quiet.published
    /\ Session = quiet.session

\* ---- gestures --------------------------------------------------------------
Abs(i) == IF i < 0 THEN -i ELSE i

\* C15: a touchstart immediately followed by a touchend publishes two records:
\* the first has initial and ongoing true, the second has initial and ongoing
\* false and all six distances and all six speeds equal to 0.
C15_SingleTap ==
    [][op = "touchstart" /\ op' = "touchend" =>
          /\ Len(published) = 1
          /\ published[1].initial /\ published[1].ongoing
          /\ Len(published') = 1
          /\ ~published'[1].initial /\ ~published'[1].ongoing
          /\ DistanceFields(published'[1]) = {Zero}
          /\ SpeedFields(published'[1]) = {Zero}]_vars

\* the end of a tap, some time after its start
C15_Witness ==
    /\ op = "touchend"
    /\ AfterStart /\ lastStart.ended
    /\ lastEvent = firstEvent /\ lastX = originX /\ lastY = originY
    /\ Rec.duration = Num(MaxTime)
    /\ DistanceFields(Rec) = {Zero}
    /\ SpeedFields(Rec) = {Zero}

\* v = a / b for a distance a and a positive number of milliseconds b, stated
\* on squares: v^2 * b^2 = a^2
IsQuotient(v, a, b) ==
    /\ IsFinite(v) /\ v.n >= 0 /\ v.d > 0
    /\ (IF v.k = "sqrt" THEN v.n ELSE v.n * v.n) * b * b = Square(a) * v.d * v.d

\* C16: in a started gesture, a record whose duration is positive has overall
\* speeds equal to the total distances divided by the duration, and a record
\* published a positive time after the previous transition has latest speeds
\* equal to the latest distances divided by that time.
C16_SpeedsAreQuotients ==
    [][lastStart.seen /\ op \in TouchTypes /\ op' \in TouchTypes
          /\ Len(published') = 1 =>
          LET r == published'[1]
              sincePrevious == now' - now
          IN /\ IsInt(r.duration) /\ r.duration.n > 0 =>
                    /\ IsQuotient(r.overallSpeedX, r.totalDistanceX, r.duration.n)
                    /\ IsQuotient(r.overallSpeedY, r.totalDistanceY, r.duration.n)
                    /\ IsQuotient(r.overallSpeed, r.totalDistance, r.duration.n)
             /\ sincePrevious > 0 =>
                    /\ IsQuotient(r.latestSpeedX, r.latestDistanceX, sincePrevious)
                    /\ IsQuotient(r.latestSpeedY, r.latestDistanceY, sincePrevious)
                    /\ IsQuotient(r.latestSpeed, r.latestDistance, sincePrevious)]_vars

StrictlyDiagonal(x, y) ==
    /\ (x + y) * (x + y) > 2 * x * x
    /\ (x + y) * (x + y) > 2 * y * y

C19_ThetaClockwiseFromEast ==
    Published /\ IsInt(Rec.originX) /\ IsInt(Rec.originY)
              /\ IsInt(Rec.currentX) /\ IsInt(Rec.currentY) =>
        LET dX == Rec.currentX.n - Rec.originX.n
            dY == Rec.currentY.n - Rec.originY.n
            t == DegPos(Rec.theta)
        IN (dX # 0 \/ dY # 0) =>
              /\ Rec.theta.k = "deg"
              /\ dX > 0 /\ dY = 0 => t = 0
              /\ dX > 0 /\ dY > 0 => t > 0 /\ t < 8
              /\ dX = 0 /\ dY > 0 => t = 8
              /\ dX < 0 /\ dY > 0 => t > 8 /\ t < 16
              /\ dX < 0 /\ dY = 0 => t = 16
              /\ dX < 0 /\ dY < 0 => t > 16 /\ t < 24
              /\ dX = 0 /\ dY < 0 => t = 24
              /\ dX > 0 /\ dY < 0 => t > 24 /\ t < 32

\* a displacement to the North-East, between 270 and 360 degrees
C19_Witness ==
    /\ AfterStart
    /\ Rec.currentX.n > Rec.originX.n
    /\ Rec.currentY.n < Rec.originY.n
    /\ DegPos(Rec.theta) > 24 /\ DegPos(Rec.theta) < 32

\* the fields of the published detail: there is no other shape of record
SwipeDetail ==
    {"event", "eventTime", "duration", "initial", "ongoing", "cardinal4",
     "cardinal8", "theta", "originX", "originY", "currentX", "currentY",
     "totalDistanceX", "totalDistanceY", "totalDistance",
     "latestDistanceX", "latestDistanceY", "latestDistance",
     "overallSpeedX", "overallSpeedY", "overallSpeed",
     "latestSpeedX", "latestSpeedY", "latestSpeed"}

\* C20: a touchmove, touchend or touchcancel processed after the gesture has
\* ended, and before any new touchstart, publishes one ordinary record whose
\* origin is that of the last touchstart, whose duration is measured from that
\* touchstart and whose total distances are measured from its point.
C20_StaleGesture ==
    [][lastStart.ended /\ op' \in {"touchmove", "touchend", "touchcancel"} =>
          /\ Len(published') = 1
          /\ LET r == published'[1]
             IN /\ DOMAIN r = SwipeDetail
                /\ r.event.type = op'
                /\ r.originX = lastStart.x /\ r.originY = lastStart.y
                /\ r.eventTime = Num(now')
                /\ r.duration = Num(now' - lastStart.t.n)
                /\ r.totalDistanceX = Num(Abs(r.currentX.n - lastStart.x.n))
                /\ r.totalDistanceY = Num(Abs(r.currentY.n - lastStart.y.n))]_vars

\* a touchmove after the gesture ended, measured from the old touchstart
C20_Witness ==
    /\ op = "touchmove"
    /\ AfterStart /\ lastStart.ended
    /\ Rec.originX = lastStart.x
    /\ Rec.totalDistanceX = Num(MaxX)
    /\ Rec.duration = Num(MaxTime)

\* ---- the order of publication and session update ---------------------------
\* C22: a touchmove publishes before it advances the session. Its latest
\* distances are measured from lastX/lastY as they were before the move (the
\* point of the preceding start or move), its latest speeds divide by the time
\* since lastEvent as it was before the move, and after the move lastX, lastY
\* and lastEvent hold the move's point and timestamp.
C22_MovePublishesBeforeAdvancing ==
    [][op' = "touchmove" /\ IsInt(lastX) /\ IsInt(lastY) /\ IsInt(lastEvent) =>
          LET r == published'[1]
              elapsed == now' - lastEvent.n
          IN /\ Len(published') = 1
             /\ op \in {"touchstart", "touchmove"} =>
                    /\ lastX = published[1].currentX
                    /\ lastY = published[1].currentY
                    /\ lastEvent = published[1].eventTime
             /\ r.latestDistanceX = Num(Abs(r.currentX.n - lastX.n))
             /\ r.latestDistanceY = Num(Abs(r.currentY.n - lastY.n))
             /\ elapsed > 0 =>
                    /\ IsQuotient(r.latestSpeedX, r.latestDistanceX, elapsed)
                    /\ IsQuotient(r.latestSpeedY, r.latestDistanceY, elapsed)
                    /\ IsQuotient(r.latestSpeed, r.latestDistance, elapsed)
             /\ lastX' = r.currentX /\ lastY' = r.currentY
             /\ lastEvent' = r.eventTime]_vars

\* the second move of a gesture: MaxX from the origin, MaxX - 1 from the
\* first move, one millisecond after it
C22_Witness ==
    /\ op = "touchmove" /\ AfterStart
    /\ Rec.totalDistanceX = Num(MaxX)
    /\ Rec.latestDistanceX = Num(MaxX - 1)
    /\ Rec.latestSpeedX = Num(MaxX - 1)
    /\ lastX = Rec.currentX /\ lastEvent = Rec.eventTime

PositionFields(r) ==
    <<r.currentX, r.currentY, r.totalDistanceX, r.totalDistanceY,
      r.totalDistance, r.cardinal4, r.cardinal8, r.theta>>

\* C28: the record of a touchend or touchcancel has the currentX/Y, total
\* distances, cardinal4, cardinal8 and theta of the record published just
\* before it, and so, through any run of ends and cancels, those of the most
\* recent start or move.
C28_EndRepeatsPosition ==
    [][Len(published) = 1 /\ op \in TouchTypes /\ IsInt(lastX) /\ IsInt(lastY)
          /\ op' \in {"touchend", "touchcancel"} =>
          /\ Len(published') = 1
          /\ PositionFields(published'[1]) = PositionFields(published[1])]_vars

\* a cancel some time after the last move, still reporting North-West
C28_Witness ==
    /\ op = "touchcancel" /\ AfterStart
    /\ Rec.cardinal8 = "NW"
    /\ Rec.totalDistanceX = Num(MaxX - 1)
    /\ now > lastEvent.n

C30_CardinalsAgreeWithTheta ==
    Published /\ IsInt(Rec.totalDistanceX) /\ IsInt(Rec.totalDistanceY)
              /\ (Rec.totalDistanceX.n > 0 \/ Rec.totalDistanceY.n > 0) =>
        LET t == DegPos(Rec.theta)
        IN /\ Rec.theta.k = "deg"
           /\ Rec.cardinal4 = "E" => t < 4 \/ t > 28
           /\ Rec.cardinal4 = "S" => t >= 4 /\ t <= 12
           /\ Rec.cardinal4 = "W" => t > 12 /\ t < 20
           /\ Rec.cardinal4 = "N" => t >= 20 /\ t <= 28
           /\ Rec.cardinal8 = "SE" => t > 0 /\ t < 8
           /\ Rec.cardinal8 = "SW" => t > 8 /\ t < 16
           /\ Rec.cardinal8 = "NW" => t > 16 /\ t < 24
           /\ Rec.cardinal8 = "NE" => t > 24 /\ t < 32

\* the boundary at 225 degrees: North for cardinal4, North-West for cardinal8
C30_Witness ==
    /\ AfterStart
    /\ DegPos(Rec.theta) = 20
    /\ Rec.cardinal4 = "N" /\ Rec.cardinal8 = "NW"

C25_RecordImmutable ==
    Transition /\ Published =>
        \A i \in 1..Len(delivered) : delivered[i].detail = Rec

\* C26: the library's console logger prints exactly one entry for the record of
\* a touch transition when the flag is set at that moment, that is after an
\* odd number of toggleTelemetryLogging calls, and prints nothing for it when
\* the flag is clear; the calls of the logging API print nothing.
C26_EchoFollowsFlag ==
    /\ Transition /\ Published =>
           IF Odd(toggles)
           THEN /\ logEvents
                /\ Len(echo) = 1
                /\ echo[1].event = op
                /\ echo[1].eventTime = Rec.eventTime
                /\ echo[1].totalDistance = Rec.totalDistance
           ELSE ~logEvents /\ echo = <<>>
    /\ ~Transition => echo = <<>>

\* a move echoed after logging was switched on
C26_Witness ==
    /\ op = "touchmove" /\ AfterStart
    /\ toggles = 1
    /\ Len(echo) = 1
    /\ echo[1].event = "touchmove"
    /\ echo[1].totalDistanceX = Num(1)

\* C23: the session update of one transition is complete before the telemetry
\* of any other transition is computed, also for a transition that a listener
\* delivers during publication: no record is computed while a touchmove
\* handler is still between its publication and its session update.
C23_NoInterleaving ==
    [][Len(published') = 1 /\ op' \in TouchTypes => dispatching = <<>>]_vars

\* ---- version 1.0 -----------------------------------------------------------
\* C21: in version 1.0 a touchstart publishes no record and only sets the six
\* session variables; every touchmove, touchend and touchcancel publishes
\* one; so a touchstart directly followed by a touchend publishes exactly one
\* record in all.
C21_V1StartPublishesNothing ==
    /\ [](op = "touchstart" =>
             /\ published = <<>> /\ delivered = <<>>
             /\ originX = lastStart.x /\ originY = lastStart.y
             /\ lastX = lastStart.x /\ lastY = lastStart.y
             /\ firstEvent = Num(now) /\ lastEvent = Num(now))
    /\ [](op \in {"touchmove", "touchend", "touchcancel"} =>
             Len(published) = 1 /\ Rec.eventTime = Num(now))
    /\ [][op = "touchstart" /\ op' = "touchend" =>
             Len(published) + Len(published') = 1]_vars

\* the one record of a tap: the end of a gesture that never moved
C21_Witness ==
    /\ op = "touchend" /\ lastStart.ended
    /\ Len(published) = 1
    /\ ~Rec.ongoing
    /\ lastEvent = firstEvent
    /\ Rec.touchEndX = Rec.touchStartX /\ Rec.touchEndY = Rec.touchStartY
    /\ Rec.duration = Num(MaxLogTime)

\* ---- durations -------------------------------------------------------------
\* C31: with Date.now() never decreasing, every record of a gesture has
\* eventTime = the timestamp of the gesture's touchstart + duration, its
\* duration is not negative, and from one record of the gesture to the next
\* the duration does not decrease.
C31_DurationWithinGesture ==
    /\ [](AfterStart =>
             /\ IsInt(Rec.duration) /\ IsInt(Rec.eventTime)
             /\ Rec.duration.n >= 0
             /\ Rec.eventTime.n = lastStart.t.n + Rec.duration.n)
    /\ [][lastStart.seen /\ Len(published) = 1
             /\ op' \in {"touchmove", "touchend", "touchcancel"} =>
             published'[1].duration.n >= published[1].duration.n]_vars

\* a record of the second gesture, later than its start, which was itself
\* later than the first record of all
C31_Witness ==
    /\ AfterStart
    /\ op = "touchcancel"
    /\ lastStart.t = Num(1)
    /\ Rec.eventTime = Num(MaxTime)
    /\ Rec.duration = Num(MaxTime - 1)

\* ---- before any start ------------------------------------------------------
NotANumber(v) == v.k = "NaN"

\* the record of C34: speeds 0, South, and no number for any distance, the
\* duration or theta
UndefinedSessionRecord(r) ==
    /\ SpeedFields(r) = {Zero}
    /\ r.cardinal4 = "S" /\ r.cardinal8 = "S"
    /\ \A v \in DistanceFields(r) : NotANumber(v)
    /\ NotANumber(r.duration)
    /\ NotANumber(r.theta)

\* C34: every touchmove, touchend and touchcancel processed before any
\* touchstart publishes a record with all six speeds 0, cardinal4 = cardinal8
\* = "S", and distances, duration and theta that are not numbers.
C34_BeforeAnyStart ==
    ~lastStart.seen /\ op \in {"touchmove", "touchend", "touchcancel"} =>
        Published /\ UndefinedSessionRecord(Rec)

\* C34 amended: the same for every touchmove, touchend and touchcancel
\* processed while all six session variables are still undefined, that is
\* before any touchstart and any touchmove.
C34_WhileSessionUndefined ==
    [][Session = NoSession /\ op' \in {"touchmove", "touchend", "touchcancel"} =>
          Len(published') = 1 /\ UndefinedSessionRecord(published'[1])]_vars

\* a first touchmove, at a point that is not the corner of the screen
C34_Witness ==
    /\ op = "touchmove" /\ Published
    /\ ~lastStart.seen
    /\ originX = undefined /\ firstEvent = undefined
    /\ Rec.currentX = Num(MaxX)
    /\ lastX = Num(MaxX)
    /\ UndefinedSessionRecord(Rec)

\* ---- what the touch listeners and the control surface leave alone ----------
\* C32: a touchstart, touchmove, touchend or touchcancel never changes
\* logEvents, and telemetryLoggingEnabled() changes neither logEvents nor the
\* session: logEvents is what the last toggleTelemetryLogging() left (false
\* if there was none), and both calls leave the six session variables alone.
C32_FlagAndSessionFrames ==
    /\ [](toggles = 0 => ~logEvents)
    /\ [](op = "toggleTelemetryLogging" => ret = <<logEvents>>)
    /\ [][/\ op' # "toggleTelemetryLogging" => logEvents' = logEvents
          /\ op' \in API => UNCHANGED session]_vars

\* a query made in the middle of a gesture, after the echo was switched on
\* and a touchmove was processed since
C32_Witness ==
    /\ op = "telemetryLoggingEnabled"
    /\ ret = <<TRUE>> /\ logEvents
    /\ toggles = 1
    /\ lastStart.seen /\ ~lastStart.ended
    /\ lastX = Num(MaxLogX) /\ originX = Zero

\* ---- loading twice ---------------------------------------------------------
\* C33: loading the script again keeps the SwipeEvents object: no further
\* touch or swipe listeners are registered, logEvents and the session are not
\* reset, and every touch event still publishes exactly one record.
C33_ReloadIsIdempotent ==
    /\ [](registered = 1)
    /\ [](Transition => recordsPublished = 1)
    /\ [][op' = "load" => UNCHANGED <<registered, logEvents, session>>]_vars

\* the script loaded again in the middle of a gesture, with the echo on
C33_Witness ==
    /\ op = "load"
    /\ logEvents /\ toggles = 1
    /\ lastStart.seen /\ ~lastStart.ended
    /\ originX = Zero /\ lastX = Num(MaxLogX)
    /\ registered = 1
====
